---- MODULE Spec2Model ----
(***************************************************************************)
(* Model of gcal_rs' request dispatch (src/src/client.rs): GCalClient      *)
(* with its shared token cell Arc<RwLock<OToken>>, the optional OAuth      *)
(* refresher and the five verb methods that all funnel into send().        *)
(*                                                                         *)
(* Every caller task ("slot") runs one verb call at a time.  A call is     *)
(* split at the await points of send()/set_bearer(): waiting for the write *)
(* guard, the refresh exchange, waiting for the read guard, the guarded    *)
(* read, the hand-over to the transport and the arrival of the response.   *)
(***************************************************************************)
EXTENDS Naturals, Sequences, FiniteSets

VARIABLES
    token,      \* OToken.access held by the RwLock (a version number)
    oauth,      \* GCalClient.oauth is Some(..)
    debug,      \* GCalClient.debug
    writer,     \* slot holding the RwLock write guard, 0 when none
    readers,    \* slots holding an RwLock read guard
    waitq,      \* FIFO of <<slot, mode>> waiting on the RwLock
    pc,         \* position of each slot's call
    verb,       \* verb method of the running call
    desc,       \* the Sendable handed to the call
    diag,       \* diagnostic line written to stderr by the call
    bearer,     \* Authorization header value built by set_bearer
    wire,       \* request handed to the transport by the call
    resp,       \* response received by the call
    result,     \* ClientResult returned by the call
    refreshes,  \* how often the call invoked oauth.refresh
    sends,      \* how often the call handed a request to the transport
    refreshed,  \* <<access value>> the call's own refresh returned with
    listArgs,   \* arguments of the CalendarListClient::list call of the slot
    target,     \* the CalendarList descriptor list() hands to get
    body,       \* response body read by body_json
    listed      \* what list() returned

vars == <<token, oauth, debug, writer, readers, waitq, pc, verb, desc, diag,
          bearer, wire, resp, result, refreshes, sends, refreshed, listArgs,
          target, body, listed>>

lockVars == <<writer, readers, waitq>>

listVars == <<listArgs, target, body, listed>>

----------------------------------------------------------------------------
(* Bounds *)

NumSlots == 1       \* concurrent caller tasks of the full model
NumConcSlots == 2   \* concurrent caller tasks of the lock model
MaxToken == 1       \* how many times the Refresher may replace the token

Slots == 1..NumSlots
ConcSlots == 1..NumConcSlots
AllSlots == Slots \cup ConcSlots

InitialToken == 0

----------------------------------------------------------------------------
(* Values *)

None == "none"

Verbs == {"GET", "POST", "PUT", "PATCH", "DELETE"}
BodyVerbs == {"POST", "PUT", "PATCH"}

\* A Sendable as far as the client sees it: whether url() succeeds and what
\* body_bytes() yields: UTF-8 text, bytes that are no UTF-8, or an error.
Descs == [urlOk : BOOLEAN, body : {"text", "binary", "fail"}]

\* The literal of the starts_with test, as a sequence of symbols.
Marker == <<"Bearer ", "error=\"invalid_token\"">>

\* WWW-Authenticate values; "0xFF" stands for a byte that is no visible ASCII.
HeaderTexts ==
    { Marker,
      Marker \o <<", error_description=\"...\"">>,
      <<"Bearer ">>,
      <<"Basic ", "Bearer ", "error=\"invalid_token\"">>,
      <<"0xFF">>,
      Marker \o <<"0xFF">> }

Statuses == {200, 401, 404}

\* resp.headers().get("WWW-Authenticate"): absent, or present with a value.
NoHeader == [present |-> FALSE, val |-> <<>>]
HeaderValues == {NoHeader} \cup {[present |-> TRUE, val |-> v] : v \in HeaderTexts}

Responses == [status : Statuses, www : HeaderValues]

NoResp == [status |-> 0, www |-> NoHeader]
NoDesc == [urlOk |-> FALSE, body |-> None]
NoBearer == <<>>
NoReq == [method |-> None, auth |-> NoBearer, body |-> None]
NoDiag == <<>>
NoArgs == [hidden |-> FALSE, role |-> None]
NoTarget == [path |-> None, query |-> {}]
NoBody == [kind |-> None, items |-> <<>>, next |-> FALSE]
NoListed == [ok |-> FALSE, err |-> None, items |-> <<>>]

ConcVerbs == {"GET", "POST"}
ConcDescs ==
    {[urlOk |-> TRUE, body |-> "text"],
     [urlOk |-> TRUE, body |-> "fail"],
     [urlOk |-> FALSE, body |-> "text"]}
ConcResponses ==
    {[status |-> 200, www |-> NoHeader],
     [status |-> 401, www |-> [present |-> TRUE, val |-> Marker]]}

\* One kind of request and of response, for the lock and scheduling models.
PlainVerbs == {"GET"}
PlainDescs == {[urlOk |-> TRUE, body |-> "text"]}
PlainResponses == {[status |-> 200, www |-> NoHeader]}

----------------------------------------------------------------------------
(* Pure parts of the verb methods and of send() *)

\* get_url: target.url(action)?, then in debug mode the diagnostic line, whose
\* argument target.body_bytes()? returns early when serialization fails.
get_url(d, dbg) ==
    IF ~d.urlOk THEN "UrlError"
    ELSE IF dbg /\ d.body = "fail" THEN "SerializationError"
    ELSE "ok"

\* String::from_utf8(body).unwrap_or_default() of the diagnostic line.
DiagLine(v, d, dbg) ==
    IF dbg /\ get_url(d, dbg) = "ok"
    THEN <<v, IF d.body = "text" THEN "text" ELSE "">>
    ELSE NoDiag

\* The argument of send() in get/post/put/patch/delete: the URL for all verbs,
\* then .body(target.body_bytes()?) for POST, PUT and PATCH.
ResolveVerb(v, d, dbg) ==
    IF get_url(d, dbg) # "ok" THEN get_url(d, dbg)
    ELSE IF v \in BodyVerbs /\ d.body = "fail" THEN "SerializationError"
    ELSE "ok"

\* The body the built request carries.
RequestBody(v, d) == IF v \in BodyVerbs THEN d.body ELSE None

\* Variant: the scheme name is not the one the service expects.
BearerHeaderToken(access) == <<"Token ", access>>

\* format!("Bearer {}", access)
BearerHeader(access) == <<"Bearer ", access>>

\* HeaderValue::to_str succeeds on visible ASCII only.
to_str_ok(val) == \A i \in 1..Len(val) : val[i] # "0xFF"

\* str::starts_with
starts_with(s, prefix) ==
    /\ Len(s) >= Len(prefix)
    /\ SubSeq(s, 1, Len(prefix)) = prefix

\* Variant: a header that is no text is taken as the empty string.
InspectLossy(r) ==
    IF r.status # 200 /\ r.www.present
    THEN IF to_str_ok(r.www.val) /\ starts_with(r.www.val, Marker) THEN "InvalidToken"
         ELSE "Response"
    ELSE "Response"

\* Variant: the header is compared with the marker instead of tested for it
\* as a prefix.
InspectExact(r) ==
    IF r.status # 200 /\ r.www.present
    THEN IF ~to_str_ok(r.www.val) THEN "HeaderDecodeError"
         ELSE IF r.www.val = Marker THEN "InvalidToken"
         ELSE "Response"
    ELSE "Response"

\* send(), lines 126-136: classification of a received response.
Inspect(r) ==
    IF r.status # 200 /\ r.www.present
    THEN IF ~to_str_ok(r.www.val) THEN "HeaderDecodeError"
         ELSE IF starts_with(r.www.val, Marker) THEN "InvalidToken"
         ELSE "Response"
    ELSE "Response"

\* OAuth::refresh(&mut token): it may replace the access value, leave it as
\* it is, or fail.
RefreshOutcomes(tok) ==
    {[ok |-> TRUE, token |-> tok], [ok |-> FALSE, token |-> tok]}
    \cup (IF tok < MaxToken THEN {[ok |-> TRUE, token |-> tok + 1]} ELSE {})

\* The token a refresh leaves behind when its future is dropped before the
\* exchange has completed.
AbortedRefresh(tok) == tok

\* waitq without the entries of slot c: the dropped future leaves the queue.
Unqueue(q, c) == SelectSeq(q, LAMBDA e : e[1] # c)

----------------------------------------------------------------------------
(* CalendarListClient::list *)

Roles == {"FreeBusyReader", "Reader", "Writer", "Owner"}

\* String of a CalendarAccessRole (access_role.into()).
RoleString(role) ==
    CASE role = "FreeBusyReader" -> "freeBusyReader"
      [] role = "Reader" -> "reader"
      [] role = "Writer" -> "writer"
      [] role = "Owner" -> "owner"

\* bool::to_string
BoolString(b) == IF b THEN "true" ELSE "false"

\* QueryParams::insert: the entry of the key is replaced.
QueryInsert(q, k, v) == {e \in q : e[1] # k} \cup {<<k, v>>}

\* <CalendarList as Sendable>::path ignores the action.
CalendarListPath(action) == "users/me/calendarList"

\* Variant: the visibility filter is left out.
ListTargetNoHidden(hidden, role) ==
    [path |-> CalendarListPath(None),
     query |-> QueryInsert({}, "minAccessRole", RoleString(role))]

\* The descriptor list() builds: CalendarList::default() with the two
\* query entries, addressed with action None.
ListTarget(hidden, role) ==
    [path |-> CalendarListPath(None),
     query |-> QueryInsert(QueryInsert({}, "minAccessRole", RoleString(role)),
                           "showHidden", BoolString(hidden))]

\* The CalendarList as the Dispatch Client sees it: its URL is well formed
\* and it serializes.
CalendarListDesc == [urlOk |-> TRUE, body |-> "text"]

ItemLists == {<<>>, <<"a", "b">>, <<"b", "a">>}

\* Response bodies: a calendarList collection with its items, with or
\* without nextSyncToken, or bytes that are no such collection.
Bodies ==
    [kind : {"collection"}, items : ItemLists, next : BOOLEAN]
    \cup {[kind |-> "garbage", items |-> <<>>, next |-> FALSE]}

ListResponses ==
    {[status |-> 200, www |-> NoHeader],
     [status |-> 404, www |-> NoHeader],
     [status |-> 401, www |-> [present |-> TRUE, val |-> Marker]]}

\* Variant: a body that does not decode counts as an empty collection.
ListResultOrDefault(res, b) ==
    IF res # "Response" THEN [ok |-> FALSE, err |-> res, items |-> <<>>]
    ELSE [ok |-> TRUE, err |-> None, items |-> b.items]

\* get(None, cl).await?.body_json::<CalendarList>().await?.items
ListResult(res, b) ==
    IF res # "Response" THEN [ok |-> FALSE, err |-> res, items |-> <<>>]
    ELSE IF b.kind # "collection" THEN [ok |-> FALSE, err |-> "DecodeError", items |-> <<>>]
    ELSE [ok |-> TRUE, err |-> None, items |-> b.items]

----------------------------------------------------------------------------
(* The client after GCalClient::new(token, oauth) *)

Init ==
    /\ token = InitialToken
    /\ oauth \in BOOLEAN
    /\ debug = FALSE
    /\ writer = 0
    /\ readers = {}
    /\ waitq = <<>>
    /\ pc = [c \in AllSlots |-> "idle"]
    /\ verb = [c \in AllSlots |-> None]
    /\ desc = [c \in AllSlots |-> NoDesc]
    /\ diag = [c \in AllSlots |-> NoDiag]
    /\ bearer = [c \in AllSlots |-> NoBearer]
    /\ wire = [c \in AllSlots |-> NoReq]
    /\ resp = [c \in AllSlots |-> NoResp]
    /\ result = [c \in AllSlots |-> None]
    /\ refreshes = [c \in AllSlots |-> 0]
    /\ sends = [c \in AllSlots |-> 0]
    /\ refreshed = [c \in AllSlots |-> <<>>]
    /\ listArgs = [c \in AllSlots |-> NoArgs]
    /\ target = [c \in AllSlots |-> NoTarget]
    /\ body = [c \in AllSlots |-> NoBody]
    /\ listed = [c \in AllSlots |-> NoListed]

----------------------------------------------------------------------------
(* Steps of a verb call *)

\* set_debug(&mut self): the exclusive borrow rules out any running call.
SetDebug ==
    /\ ~debug
    /\ \A c \in AllSlots : pc[c] = "idle"
    /\ debug' = TRUE
    /\ UNCHANGED <<refreshed, listVars, token, oauth, lockVars, pc, verb, desc, diag, bearer, wire,
                   resp, result, refreshes, sends>>

\* Variant: send() never refreshes.
StartNoRefresh(c, V, D) ==
    /\ pc[c] = "idle"
    /\ \E v \in V, d \in D :
        /\ verb' = [verb EXCEPT ![c] = v]
        /\ desc' = [desc EXCEPT ![c] = d]
        /\ diag' = [diag EXCEPT ![c] = DiagLine(v, d, debug)]
        /\ IF ResolveVerb(v, d, debug) # "ok"
           THEN /\ pc' = [pc EXCEPT ![c] = "done"]
                /\ result' = [result EXCEPT ![c] = ResolveVerb(v, d, debug)]
                /\ UNCHANGED waitq
           ELSE /\ pc' = [pc EXCEPT ![c] = "read_wait"]
                /\ waitq' = Append(waitq, <<c, "r">>)
                /\ UNCHANGED result
    /\ UNCHANGED <<refreshed, listVars, token, oauth, debug, writer, readers, bearer, wire, resp,
                   refreshes, sends>>

\* Variant: send() refreshes only while the token is the one the client was
\* constructed with.
StartRefreshInitialOnly(c, V, D) ==
    /\ pc[c] = "idle"
    /\ \E v \in V, d \in D :
        /\ verb' = [verb EXCEPT ![c] = v]
        /\ desc' = [desc EXCEPT ![c] = d]
        /\ diag' = [diag EXCEPT ![c] = DiagLine(v, d, debug)]
        /\ IF ResolveVerb(v, d, debug) # "ok"
           THEN /\ pc' = [pc EXCEPT ![c] = "done"]
                /\ result' = [result EXCEPT ![c] = ResolveVerb(v, d, debug)]
                /\ UNCHANGED waitq
           ELSE /\ pc' = [pc EXCEPT ![c] =
                        IF oauth /\ token = InitialToken THEN "write_wait" ELSE "read_wait"]
                /\ waitq' = Append(waitq,
                        <<c, IF oauth /\ token = InitialToken THEN "w" ELSE "r">>)
                /\ UNCHANGED result
    /\ UNCHANGED <<refreshed, listVars, token, oauth, debug, writer, readers, bearer, wire, resp,
                   refreshes, sends>>

\* Variant: the construction error is kept for later and send() is entered
\* all the same.
StartLateError(c, V, D) ==
    /\ pc[c] = "idle"
    /\ \E v \in V, d \in D :
        /\ verb' = [verb EXCEPT ![c] = v]
        /\ desc' = [desc EXCEPT ![c] = d]
        /\ diag' = [diag EXCEPT ![c] = DiagLine(v, d, debug)]
        /\ result' = [result EXCEPT ![c] =
                IF ResolveVerb(v, d, debug) # "ok" THEN ResolveVerb(v, d, debug) ELSE @]
        /\ pc' = [pc EXCEPT ![c] = IF oauth THEN "write_wait" ELSE "read_wait"]
        /\ waitq' = Append(waitq, <<c, IF oauth THEN "w" ELSE "r">>)
    /\ UNCHANGED <<refreshed, listVars, token, oauth, debug, writer, readers, bearer, wire, resp,
                   refreshes, sends>>

\* get/post/put/patch/delete up to the first await of send(): the request is
\* built from the Sendable, or the call returns the construction error; then
\* send() asks for the write guard (oauth is Some) or set_bearer asks for the
\* read guard (oauth is None).
Start(c, V, D) ==
    /\ pc[c] = "idle"
    /\ \E v \in V, d \in D :
        /\ verb' = [verb EXCEPT ![c] = v]
        /\ desc' = [desc EXCEPT ![c] = d]
        /\ diag' = [diag EXCEPT ![c] = DiagLine(v, d, debug)]
        /\ IF ResolveVerb(v, d, debug) # "ok"
           THEN /\ pc' = [pc EXCEPT ![c] = "done"]
                /\ result' = [result EXCEPT ![c] = ResolveVerb(v, d, debug)]
                /\ UNCHANGED waitq
           ELSE /\ pc' = [pc EXCEPT ![c] = IF oauth THEN "write_wait" ELSE "read_wait"]
                /\ waitq' = Append(waitq, <<c, IF oauth THEN "w" ELSE "r">>)
                /\ UNCHANGED result
    /\ UNCHANGED <<refreshed, listVars, token, oauth, debug, writer, readers, bearer, wire, resp,
                   refreshes, sends>>

\* self.token.write().await resolves: the write guard is granted to the
\* first waiter once no guard is held, and oauth.refresh is invoked with it.
AcquireWrite(c) ==
    /\ pc[c] = "write_wait"
    /\ waitq # <<>> /\ Head(waitq) = <<c, "w">>
    /\ writer = 0 /\ readers = {}
    /\ writer' = c
    /\ waitq' = Tail(waitq)
    /\ pc' = [pc EXCEPT ![c] = "refreshing"]
    /\ refreshes' = [refreshes EXCEPT ![c] = @ + 1]
    /\ UNCHANGED <<refreshed, listVars, token, oauth, debug, readers, verb, desc, diag, bearer, wire,
                   resp, result, sends>>

\* Variant: the refresh works on a copy of the token, as it would for a
\* client whose clone copied the token instead of sharing the cell.
RefreshReturnOnCopy(c) ==
    /\ pc[c] = "refreshing"
    /\ writer = c
    /\ \E o \in RefreshOutcomes(token) :
        /\ token' = token
        /\ refreshed' = [refreshed EXCEPT ![c] = IF o.ok THEN <<o.token>> ELSE @]
        /\ writer' = 0
        /\ IF o.ok
           THEN /\ pc' = [pc EXCEPT ![c] = "read_wait"]
                /\ waitq' = Append(waitq, <<c, "r">>)
                /\ UNCHANGED result
           ELSE /\ pc' = [pc EXCEPT ![c] = "done"]
                /\ result' = [result EXCEPT ![c] = "AuthError"]
                /\ UNCHANGED waitq
    /\ UNCHANGED <<listVars, oauth, debug, readers, verb, desc, diag, bearer, wire, resp,
                   refreshes, sends>>

\* Variant: the write guard is still held when the read guard is asked for.
RefreshReturnKeepGuard(c) ==
    /\ pc[c] = "refreshing"
    /\ writer = c
    /\ \E o \in RefreshOutcomes(token) :
        /\ token' = o.token
        /\ refreshed' = [refreshed EXCEPT ![c] = IF o.ok THEN <<o.token>> ELSE @]
        /\ IF o.ok
           THEN /\ pc' = [pc EXCEPT ![c] = "read_wait"]
                /\ waitq' = Append(waitq, <<c, "r">>)
                /\ UNCHANGED <<result, writer>>
           ELSE /\ pc' = [pc EXCEPT ![c] = "done"]
                /\ result' = [result EXCEPT ![c] = "AuthError"]
                /\ writer' = 0
                /\ UNCHANGED waitq
    /\ UNCHANGED <<listVars, oauth, debug, readers, verb, desc, diag, bearer, wire, resp,
                   refreshes, sends>>

\* Variant: a failed refresh is noted and the call goes on to send.
RefreshReturnContinue(c) ==
    /\ pc[c] = "refreshing"
    /\ writer = c
    /\ \E o \in RefreshOutcomes(token) :
        /\ token' = o.token
        /\ refreshed' = [refreshed EXCEPT ![c] = IF o.ok THEN <<o.token>> ELSE @]
        /\ writer' = 0
        /\ pc' = [pc EXCEPT ![c] = "read_wait"]
        /\ waitq' = Append(waitq, <<c, "r">>)
        /\ result' = [result EXCEPT ![c] = IF o.ok THEN @ ELSE "AuthError"]
    /\ UNCHANGED <<listVars, oauth, debug, readers, verb, desc, diag, bearer, wire, resp,
                   refreshes, sends>>

\* oauth.refresh(..).await returns; the write guard, a temporary of the
\* statement, is dropped; `?` returns the failure, otherwise set_bearer asks
\* for the read guard.
RefreshReturn(c) ==
    /\ pc[c] = "refreshing"
    /\ writer = c
    /\ \E o \in RefreshOutcomes(token) :
        /\ token' = o.token
        /\ refreshed' = [refreshed EXCEPT ![c] = IF o.ok THEN <<o.token>> ELSE @]
        /\ writer' = 0
        /\ IF o.ok
           THEN /\ pc' = [pc EXCEPT ![c] = "read_wait"]
                /\ waitq' = Append(waitq, <<c, "r">>)
                /\ UNCHANGED result
           ELSE /\ pc' = [pc EXCEPT ![c] = "done"]
                /\ result' = [result EXCEPT ![c] = "AuthError"]
                /\ UNCHANGED waitq
    /\ UNCHANGED <<listVars, oauth, debug, readers, verb, desc, diag, bearer, wire, resp,
                   refreshes, sends>>

\* Variant: the read is granted without regard to a held write guard.
AcquireReadUnguarded(c) ==
    /\ pc[c] = "read_wait"
    /\ waitq # <<>> /\ Head(waitq) = <<c, "r">>
    /\ readers' = readers \cup {c}
    /\ waitq' = Tail(waitq)
    /\ pc' = [pc EXCEPT ![c] = "reading"]
    /\ UNCHANGED <<refreshed, listVars, token, oauth, debug, writer, verb, desc, diag, bearer, wire,
                   resp, result, refreshes, sends>>

\* self.token.read().await resolves: a read guard is granted to the first
\* waiter once no write guard is held.
AcquireRead(c) ==
    /\ pc[c] = "read_wait"
    /\ waitq # <<>> /\ Head(waitq) = <<c, "r">>
    /\ writer = 0
    /\ readers' = readers \cup {c}
    /\ waitq' = Tail(waitq)
    /\ pc' = [pc EXCEPT ![c] = "reading"]
    /\ UNCHANGED <<refreshed, listVars, token, oauth, debug, writer, verb, desc, diag, bearer, wire,
                   resp, result, refreshes, sends>>

\* Variant: the header is built from the token the client was constructed
\* with instead of the stored one.
set_bearer_cached(c) ==
    /\ pc[c] = "reading"
    /\ c \in readers
    /\ bearer' = [bearer EXCEPT ![c] = BearerHeader(InitialToken)]
    /\ readers' = readers \ {c}
    /\ pc' = [pc EXCEPT ![c] = "ready"]
    /\ UNCHANGED <<refreshed, listVars, token, oauth, debug, writer, waitq, verb, desc, diag, wire,
                   resp, result, refreshes, sends>>

\* Variant: the read guard lives as long as the request.
set_bearer_hold(c) ==
    /\ pc[c] = "reading"
    /\ c \in readers
    /\ bearer' = [bearer EXCEPT ![c] = BearerHeader(token)]
    /\ pc' = [pc EXCEPT ![c] = "ready"]
    /\ UNCHANGED <<refreshed, listVars, token, oauth, debug, lockVars, verb, desc, diag,
                   wire, resp, result, refreshes, sends>>

\* set_bearer: the access value is formatted into the Authorization header
\* and the read guard is dropped.
set_bearer(c) ==
    /\ pc[c] = "reading"
    /\ c \in readers
    /\ bearer' = [bearer EXCEPT ![c] = BearerHeader(token)]
    /\ readers' = readers \ {c}
    /\ pc' = [pc EXCEPT ![c] = "ready"]
    /\ UNCHANGED <<refreshed, listVars, token, oauth, debug, writer, waitq, verb, desc, diag, wire,
                   resp, result, refreshes, sends>>

\* RequestBuilder::send: the request goes to the transport.
TransportSend(c) ==
    /\ pc[c] = "ready"
    /\ wire' = [wire EXCEPT ![c] = [method |-> verb[c], auth |-> bearer[c],
                                     body |-> RequestBody(verb[c], desc[c])]]
    /\ sends' = [sends EXCEPT ![c] = @ + 1]
    /\ pc' = [pc EXCEPT ![c] = "in_flight"]
    /\ UNCHANGED <<refreshed, listVars, token, oauth, debug, lockVars, verb, desc, diag, bearer, resp,
                   result, refreshes>>

\* Variant: a rejected token makes send() hand the request over once more.
RespondRetry(c, R) ==
    /\ pc[c] = "in_flight"
    /\ \E r \in R :
        /\ resp' = [resp EXCEPT ![c] = r]
        /\ result' = [result EXCEPT ![c] = Inspect(r)]
        /\ pc' = [pc EXCEPT ![c] =
                IF Inspect(r) = "InvalidToken" /\ sends[c] < 2 THEN "ready" ELSE "done"]
    /\ UNCHANGED <<refreshed, listVars, token, oauth, debug, lockVars, verb, desc, diag, bearer, wire,
                   refreshes, sends>>

\* .send().await yields a response, which send() classifies and returns.
Respond(c, R) ==
    /\ pc[c] = "in_flight"
    /\ \E r \in R :
        /\ resp' = [resp EXCEPT ![c] = r]
        /\ result' = [result EXCEPT ![c] = Inspect(r)]
    /\ pc' = [pc EXCEPT ![c] = "done"]
    /\ UNCHANGED <<refreshed, listVars, token, oauth, debug, lockVars, verb, desc, diag, bearer, wire,
                   refreshes, sends>>

\* .send().await? fails: the reqwest error is returned.
TransportFail(c) ==
    /\ pc[c] = "in_flight"
    /\ result' = [result EXCEPT ![c] = "TransportError"]
    /\ pc' = [pc EXCEPT ![c] = "done"]
    /\ UNCHANGED <<refreshed, listVars, token, oauth, debug, lockVars, verb, desc, diag, bearer, wire,
                   resp, refreshes, sends>>

\* The caller has taken the result; its task may start another call.
Return(c) ==
    /\ pc[c] = "done"
    /\ pc' = [pc EXCEPT ![c] = "idle"]
    /\ verb' = [verb EXCEPT ![c] = None]
    /\ desc' = [desc EXCEPT ![c] = NoDesc]
    /\ diag' = [diag EXCEPT ![c] = NoDiag]
    /\ bearer' = [bearer EXCEPT ![c] = NoBearer]
    /\ wire' = [wire EXCEPT ![c] = NoReq]
    /\ resp' = [resp EXCEPT ![c] = NoResp]
    /\ result' = [result EXCEPT ![c] = None]
    /\ refreshes' = [refreshes EXCEPT ![c] = 0]
    /\ sends' = [sends EXCEPT ![c] = 0]
    /\ refreshed' = [refreshed EXCEPT ![c] = <<>>]
    /\ UNCHANGED <<listVars, token, oauth, debug, lockVars>>

\* Variant: the dropped future leaves its guard and its place in the queue
\* behind.
AbandonLeak(c) ==
    /\ pc[c] \in {"write_wait", "refreshing", "read_wait", "in_flight"}
    /\ pc' = [pc EXCEPT ![c] = "done"]
    /\ result' = [result EXCEPT ![c] = "Abandoned"]
    /\ token' = IF pc[c] = "refreshing" THEN AbortedRefresh(token) ELSE token
    /\ UNCHANGED <<refreshed, listVars, oauth, debug, lockVars, verb, desc, diag, bearer,
                   wire, resp, refreshes, sends>>

\* The caller drops the future of a verb call at one of its await points:
\* waiting for the write guard, in oauth.refresh, waiting for the read guard
\* or in .send(); the guard it holds and its place in the queue go with it.
Abandon(c) ==
    /\ pc[c] \in {"write_wait", "refreshing", "read_wait", "in_flight"}
    /\ pc' = [pc EXCEPT ![c] = "done"]
    /\ result' = [result EXCEPT ![c] = "Abandoned"]
    /\ token' = IF pc[c] = "refreshing" THEN AbortedRefresh(token) ELSE token
    /\ writer' = IF writer = c THEN 0 ELSE writer
    /\ readers' = readers \ {c}
    /\ waitq' = Unqueue(waitq, c)
    /\ UNCHANGED <<refreshed, listVars, oauth, debug, verb, desc, diag, bearer, wire, resp,
                   refreshes, sends>>

\* list(hidden, access_role) up to the first await of the GET it issues: the
\* descriptor is built and handed to get(None, cl).
ListStart(c) ==
    /\ pc[c] = "idle"
    /\ \E hidden \in BOOLEAN, role \in Roles :
        /\ listArgs' = [listArgs EXCEPT ![c] = [hidden |-> hidden, role |-> role]]
        /\ target' = [target EXCEPT ![c] = ListTarget(hidden, role)]
    /\ verb' = [verb EXCEPT ![c] = "GET"]
    /\ desc' = [desc EXCEPT ![c] = CalendarListDesc]
    /\ diag' = [diag EXCEPT ![c] = DiagLine("GET", CalendarListDesc, debug)]
    /\ IF ResolveVerb("GET", CalendarListDesc, debug) # "ok"
       THEN /\ pc' = [pc EXCEPT ![c] = "done"]
            /\ result' = [result EXCEPT ![c] = ResolveVerb("GET", CalendarListDesc, debug)]
            /\ UNCHANGED waitq
       ELSE /\ pc' = [pc EXCEPT ![c] = IF oauth THEN "write_wait" ELSE "read_wait"]
            /\ waitq' = Append(waitq, <<c, IF oauth THEN "w" ELSE "r">>)
            /\ UNCHANGED result
    /\ UNCHANGED <<refreshed, body, listed, token, oauth, debug, writer, readers, bearer,
                   wire, resp, refreshes, sends>>

\* The GET has returned: `?` hands its error on, otherwise the body is read
\* and decoded, and list() returns the items or the decode failure.
ListFinish(c, B) ==
    /\ pc[c] = "done"
    /\ listArgs[c] # NoArgs
    /\ \E b \in (IF result[c] = "Response" THEN B ELSE {NoBody}) :
        /\ body' = [body EXCEPT ![c] = b]
        /\ listed' = [listed EXCEPT ![c] = ListResult(result[c], b)]
    /\ pc' = [pc EXCEPT ![c] = "listed"]
    /\ UNCHANGED <<refreshed, listArgs, target, token, oauth, debug, lockVars, verb, desc,
                   diag, bearer, wire, resp, result, refreshes, sends>>

\* The caller has taken list()'s result.
ListReturn(c) ==
    /\ pc[c] = "listed"
    /\ pc' = [pc EXCEPT ![c] = "idle"]
    /\ verb' = [verb EXCEPT ![c] = None]
    /\ desc' = [desc EXCEPT ![c] = NoDesc]
    /\ diag' = [diag EXCEPT ![c] = NoDiag]
    /\ bearer' = [bearer EXCEPT ![c] = NoBearer]
    /\ wire' = [wire EXCEPT ![c] = NoReq]
    /\ resp' = [resp EXCEPT ![c] = NoResp]
    /\ result' = [result EXCEPT ![c] = None]
    /\ refreshes' = [refreshes EXCEPT ![c] = 0]
    /\ sends' = [sends EXCEPT ![c] = 0]
    /\ refreshed' = [refreshed EXCEPT ![c] = <<>>]
    /\ listArgs' = [listArgs EXCEPT ![c] = NoArgs]
    /\ target' = [target EXCEPT ![c] = NoTarget]
    /\ body' = [body EXCEPT ![c] = NoBody]
    /\ listed' = [listed EXCEPT ![c] = NoListed]
    /\ UNCHANGED <<token, oauth, debug, lockVars>>

----------------------------------------------------------------------------
(* Specifications *)

\* All verbs, descriptors and responses.
Next ==
    \/ SetDebug
    \/ \E c \in Slots :
        \/ Start(c, Verbs, Descs)
        \/ AcquireWrite(c)
        \/ RefreshReturn(c)
        \/ AcquireRead(c)
        \/ set_bearer(c)
        \/ TransportSend(c)
        \/ Respond(c, Responses)
        \/ TransportFail(c)
        \/ Return(c)

Spec == Init /\ [][Next]_vars

\* More concurrent calls on fewer kinds of request and response.
NextConc ==
    \/ SetDebug
    \/ \E c \in ConcSlots :
        \/ Start(c, ConcVerbs, ConcDescs)
        \/ AcquireWrite(c)
        \/ RefreshReturn(c)
        \/ AcquireRead(c)
        \/ set_bearer(c)
        \/ TransportSend(c)
        \/ Respond(c, ConcResponses)
        \/ TransportFail(c)
        \/ Return(c)

SpecConc == Init /\ [][NextConc]_vars

\* Concurrent calls that their callers may abandon.
NextCancel ==
    \E c \in ConcSlots :
        \/ Start(c, PlainVerbs, PlainDescs)
        \/ AcquireWrite(c)
        \/ RefreshReturn(c)
        \/ AcquireRead(c)
        \/ set_bearer(c)
        \/ TransportSend(c)
        \/ Respond(c, PlainResponses)
        \/ TransportFail(c)
        \/ Abandon(c)
        \/ Return(c)

SpecCancel == Init /\ [][NextCancel]_vars

\* Concurrent calls under a fair lock, a Refresher and a transport that
\* always return.
NextFair ==
    \E c \in ConcSlots :
        \/ Start(c, PlainVerbs, PlainDescs)
        \/ AcquireWrite(c)
        \/ RefreshReturn(c)
        \/ AcquireRead(c)
        \/ set_bearer(c)
        \/ TransportSend(c)
        \/ Respond(c, PlainResponses)
        \/ TransportFail(c)
        \/ Return(c)

Fairness ==
    \A c \in ConcSlots :
        /\ WF_vars(AcquireWrite(c))
        /\ WF_vars(RefreshReturn(c))
        /\ WF_vars(AcquireRead(c))
        /\ WF_vars(set_bearer(c))
        /\ WF_vars(TransportSend(c))
        /\ WF_vars(Respond(c, PlainResponses) \/ TransportFail(c))

SpecFair == Init /\ [][NextFair]_vars /\ Fairness

\* Calls of CalendarListClient::list.
NextList ==
    \/ SetDebug
    \/ \E c \in Slots :
        \/ ListStart(c)
        \/ AcquireWrite(c)
        \/ RefreshReturn(c)
        \/ AcquireRead(c)
        \/ set_bearer(c)
        \/ TransportSend(c)
        \/ Respond(c, ListResponses)
        \/ TransportFail(c)
        \/ ListFinish(c, Bodies)
        \/ ListReturn(c)

SpecList == Init /\ [][NextList]_vars

----------------------------------------------------------------------------
(* Properties *)

ResolveErrors == {"UrlError", "SerializationError"}

Queued(c) == \E i \in 1..Len(waitq) : waitq[i][1] = c

HoldsNothing(c) == writer # c /\ c \notin readers /\ ~Queued(c)

\* C1: with a Refresher configured, a call is granted the read guard and
\* builds its Authorization header only after its own Refresher invocation
\* has been made and has returned.
C1_RefreshThenRead ==
    oauth =>
        \A c \in AllSlots :
            (pc[c] \in {"read_wait", "reading"} \/ bearer[c] # NoBearer)
                => refreshes[c] >= 1 /\ writer # c

\* A call reads the token while another call is under way.
C1_Witness ==
    /\ oauth
    /\ \E c, d \in AllSlots :
        /\ c # d
        /\ pc[c] = "reading"
        /\ pc[d] \in {"write_wait", "read_wait", "ready", "in_flight"}

\* C2 as stated: when a call hands its request to the transport, the bearer
\* value on it is the current Token Store value.
C2_SentTokenIsCurrent ==
    [][\A c \in AllSlots :
        (pc[c] = "ready" /\ pc'[c] = "in_flight")
            => wire'[c].auth = <<"Bearer ", token'>>]_vars

\* C2 amended: the bearer value a call sends is the Token Store value at the
\* moment of that call's guarded read, when no refresh is in progress; the
\* request carries that value unchanged, whatever the store holds by then.
C2_SentTokenIsTheOneRead ==
    [][\A c \in AllSlots :
        /\ (pc[c] = "reading" /\ pc'[c] = "ready")
            => /\ bearer'[c] = <<"Bearer ", token>>
               /\ writer = 0
               /\ token' = token
        /\ (pc[c] = "ready" /\ pc'[c] = "in_flight")
            => wire'[c].auth = bearer[c]]_vars

\* A request is in flight with a token that a later refresh has replaced.
C2_Witness ==
    \E c \in AllSlots :
        /\ pc[c] = "in_flight"
        /\ wire[c].auth # <<"Bearer ", token>>

\* C3: while a call holds the Token Store for a refresh, no call holds it
\* for reading and no other call is refreshing; the calls that are
\* refreshing or reading are exactly the holders of the guards.
C3_SingleWriterMultiReader ==
    /\ writer # 0 => readers = {}
    /\ \A c \in AllSlots :
        /\ pc[c] = "refreshing" <=> writer = c
        /\ pc[c] = "reading" <=> c \in readers
    /\ \A c, d \in AllSlots :
        (pc[c] = "refreshing" /\ c # d) => pc[d] \notin {"refreshing", "reading"}

\* A refresh is in progress while another call waits to read.
C3_Witness ==
    \E c, d \in AllSlots :
        /\ writer = c
        /\ pc[d] = "read_wait"
        /\ waitq # <<>> /\ Head(waitq) = <<d, "r">>

\* Two calls hold the read guard at once under a configured Refresher.
C3_TwoReaders == oauth /\ Cardinality(readers) >= 2

\* C4: a call returns InvalidToken exactly when it received a response whose
\* status is not 200 and whose WWW-Authenticate header is present, is text
\* and begins with the marker; a response with status 200, without the
\* header, or with a text header not beginning with the marker is returned
\* as a response.
C4_InvalidTokenIff ==
    \A c \in AllSlots :
        LET r == resp[c]
            text == \A i \in 1..Len(r.www.val) : r.www.val[i] # "0xFF"
            marked == /\ Len(r.www.val) >= 2
                      /\ r.www.val[1] = "Bearer "
                      /\ r.www.val[2] = "error=\"invalid_token\""
        IN  /\ result[c] = "InvalidToken"
                <=> (r # NoResp /\ r.status # 200 /\ r.www.present /\ text /\ marked)
            /\ (r # NoResp /\ (r.status = 200 \/ ~r.www.present \/ (text /\ ~marked)))
                => result[c] = "Response"

\* InvalidToken was returned for a marker followed by a suffix.
C4_Witness ==
    \E c \in AllSlots :
        /\ result[c] = "InvalidToken"
        /\ Len(resp[c].www.val) > 2
        /\ resp[c].status = 401

\* C5: a call hands at most one request to the transport and invokes the
\* Refresher at most once; once it has a result it holds and awaits nothing,
\* and after InvalidToken it has sent exactly once.
C5_NoRetry ==
    \A c \in AllSlots :
        /\ sends[c] <= 1
        /\ refreshes[c] <= 1
        /\ result[c] # None => pc[c] = "done" /\ HoldsNothing(c)
        /\ result[c] = "InvalidToken"
            => sends[c] = 1 /\ refreshes[c] = (IF oauth THEN 1 ELSE 0)

\* A call has returned InvalidToken after its refresh.
C5_Witness ==
    \E c \in AllSlots : result[c] = "InvalidToken" /\ oauth /\ refreshes[c] = 1

\* C6: with a Refresher configured, every call whose request was built has
\* invoked the Refresher exactly once by the time it reads the token, and so
\* every request sent comes with one invocation, whatever the token is.
C6_RefreshEveryDispatch ==
    oauth =>
        \A c \in AllSlots :
            /\ pc[c] \in {"refreshing", "read_wait", "reading", "ready", "in_flight"}
                => refreshes[c] = 1
            /\ sends[c] = 1 => refreshes[c] = 1
            /\ (pc[c] = "done" /\ result[c] \notin ResolveErrors) => refreshes[c] = 1

\* Two requests are out with the same replaced token, each after its own
\* refresh: the later refresh was invoked although it kept the token.
C6_Witness ==
    /\ oauth
    /\ token # InitialToken
    /\ \E c, d \in AllSlots :
        /\ c # d
        /\ sends[c] = 1 /\ refreshes[c] = 1
        /\ sends[d] = 1 /\ refreshes[d] = 1
        /\ wire[c].auth = wire[d].auth

\* C7: a call whose refresh failed has returned AuthError, has sent nothing
\* and holds no access to the Token Store.
C7_RefreshFailure ==
    \A c \in AllSlots :
        result[c] = "AuthError"
            => /\ pc[c] = "done"
               /\ refreshes[c] = 1
               /\ sends[c] = 0
               /\ wire[c] = NoReq
               /\ bearer[c] = NoBearer
               /\ HoldsNothing(c)

\* After one call's refresh failed, another call refreshes.
C7_Witness ==
    \E c, d \in AllSlots :
        /\ result[c] = "AuthError"
        /\ pc[d] = "refreshing"

\* C8: the debug flag changes no result: a call that is built with the flag
\* clear is built with the flag set, so it does not return a construction
\* error.
C8_DebugObservational ==
    \A c \in AllSlots :
        (pc[c] # "idle" /\ ResolveVerb(verb[c], desc[c], FALSE) = "ok")
            => result[c] \notin ResolveErrors

\* C9: a call that returns UrlError or SerializationError has not invoked
\* the Refresher, has read and sent nothing, and the step that fails it
\* leaves the Token Store and its guards as they were.
C9_ResolveIsLocal ==
    [][\A c \in AllSlots :
        result'[c] \in ResolveErrors
            => /\ refreshes'[c] = 0
               /\ sends'[c] = 0
               /\ wire'[c] = NoReq
               /\ bearer'[c] = NoBearer
               /\ pc'[c] = "done"
               /\ result[c] \notin ResolveErrors
                    => /\ pc[c] = "idle"
                       /\ token' = token
                       /\ lockVars' = lockVars]_vars

\* A POST failed on its body with a Refresher configured and debug off.
C9_Witness ==
    \E c \in AllSlots :
        /\ result[c] = "SerializationError"
        /\ verb[c] = "POST"
        /\ desc[c].urlOk
        /\ oauth /\ ~debug

\* C10: without a Refresher the Token Store keeps the initial token and
\* every request sent carries `Bearer <initial access value>`.
C10_NoRefresherKeepsToken ==
    ~oauth =>
        /\ token = InitialToken
        /\ \A c \in AllSlots :
            /\ refreshes[c] = 0
            /\ wire[c] # NoReq => wire[c].auth = <<"Bearer ", InitialToken>>

\* Without a Refresher two requests are in flight at once.
C10_Witness ==
    /\ ~oauth
    /\ \E c, d \in AllSlots :
        c # d /\ pc[c] = "in_flight" /\ pc[d] = "in_flight"

\* C11: all callers, whichever client handle they came through, read one
\* Token Store: a token read returns the value of the latest completed
\* refresh, never a value older than what any call's refresh has returned.
C11_SharedTokenStore ==
    [][\A c \in AllSlots :
        (pc[c] = "reading" /\ pc'[c] = "ready")
            => \A d \in AllSlots :
                refreshed[d] # <<>> => bearer'[c][2] >= refreshed[d][1]]_vars

\* A call has read the token that another, completed call's refresh put
\* into the store.
C11_Witness ==
    \E c, d \in AllSlots :
        /\ c # d
        /\ pc[d] = "done" /\ refreshed[d] = <<token>> /\ token # InitialToken
        /\ pc[c] = "ready" /\ bearer[c] = <<"Bearer ", token>>
        /\ refreshed[c] = <<InitialToken>>

\* C16: with a Refresher configured, the token on a call's request is never
\* older than the value its own refresh returned with.
C16_NotOlderThanOwnRefresh ==
    oauth =>
        \A c \in AllSlots :
            wire[c] # NoReq
                => /\ refreshed[c] # <<>>
                   /\ wire[c].auth[2] >= refreshed[c][1]

\* A request carries the result of a later refresh by another call.
C16_Witness ==
    \E c \in AllSlots :
        /\ pc[c] = "in_flight"
        /\ refreshed[c] # <<>>
        /\ wire[c].auth[2] > refreshed[c][1]

\* C17: a call that has built its header, or whose request is in flight,
\* holds no access to the Token Store and waits for none; the write access
\* is gone once the Refresher has returned.
C17_NoGuardInFlight ==
    \A c \in AllSlots :
        /\ pc[c] \in {"ready", "in_flight"} => HoldsNothing(c)
        /\ pc[c] \in {"read_wait", "reading"} => writer # c

\* While one call's request is in flight, another call, which has not sent
\* yet, holds the write access for its refresh.
C17_Witness ==
    \E c, d \in AllSlots :
        /\ pc[c] = "in_flight"
        /\ pc[d] = "refreshing"
        /\ sends[d] = 0

\* C13: a response whose status is not 200 and whose WWW-Authenticate value
\* is no text makes the call return HeaderDecodeError, also when the bytes
\* begin with the marker; with status 200 the same response is returned as
\* a response; nothing else yields HeaderDecodeError.
C13_HeaderDecodeError ==
    \A c \in AllSlots :
        LET r == resp[c]
            undecodable == /\ r.www.present
                           /\ \E i \in 1..Len(r.www.val) : r.www.val[i] = "0xFF"
        IN  /\ (r # NoResp /\ undecodable /\ r.status # 200)
                => result[c] = "HeaderDecodeError"
            /\ (r # NoResp /\ undecodable /\ r.status = 200)
                => result[c] = "Response"
            /\ result[c] = "HeaderDecodeError"
                => (r # NoResp /\ undecodable /\ r.status # 200)

\* HeaderDecodeError was returned for bytes that begin with the marker.
C13_Witness ==
    \E c \in AllSlots :
        /\ result[c] = "HeaderDecodeError"
        /\ Len(resp[c].www.val) > 2
        /\ resp[c].www.val[1] = "Bearer "

\* Every guard is held, and every place in the queue is taken, by a call
\* that is at the matching point of send().
GuardsOfLiveCalls ==
    /\ writer # 0 => pc[writer] = "refreshing"
    /\ \A c \in readers : pc[c] = "reading"
    /\ \A i \in 1..Len(waitq) : pc[waitq[i][1]] \in {"write_wait", "read_wait"}

\* C12: the step that abandons a call leaves the Token Store as it is,
\* leaves that call without guard and without place in the queue, and
\* leaves the other calls' guards and places as they were; afterwards every
\* guard still belongs to a call that will release it.
C12_AbandonLeavesNothing ==
    [][\A c \in AllSlots :
        (result'[c] = "Abandoned" /\ result[c] # "Abandoned")
            => /\ token' = token
               /\ writer' # c /\ c \notin readers'
               /\ \A i \in 1..Len(waitq') : waitq'[i][1] # c
               /\ \A d \in AllSlots \ {c} :
                    /\ (writer = d) = (writer' = d)
                    /\ (d \in readers) = (d \in readers')
                    /\ Queued(d) = (\E i \in 1..Len(waitq') : waitq'[i][1] = d)
               /\ GuardsOfLiveCalls']_vars

\* A call was abandoned inside its refresh, and another call now holds the
\* write access.
C12_Witness ==
    \E c, d \in AllSlots :
        /\ result[c] = "Abandoned"
        /\ refreshes[c] = 1 /\ refreshed[c] = <<>>
        /\ pc[d] = "refreshing"

\* C18: a call never waits for the read access while it holds the write
\* access, and every call that has entered send() returns a response or an
\* error.
C18_EveryCallReturns ==
    /\ [](\A c \in AllSlots : pc[c] = "read_wait" => writer # c)
    /\ \A c \in AllSlots :
        (pc[c] \notin {"idle", "done"}) ~> (pc[c] = "done" /\ result[c] # None)

\* One call refreshes while every other call waits for the Token Store.
C18_Witness ==
    /\ writer # 0
    /\ \A c \in ConcSlots \ {writer} : pc[c] \in {"write_wait", "read_wait"}
    /\ \E c \in ConcSlots : pc[c] = "read_wait"

\* C14: list(hidden, access_role) issues a GET on users/me/calendarList
\* whose query is exactly showHidden = text of hidden and minAccessRole =
\* role string, and a decoded collection gives back its items in order.
C14_ListRequestAndItems ==
    \A c \in AllSlots :
        listArgs[c] # NoArgs
            => /\ verb[c] = "GET"
               /\ wire[c] # NoReq => wire[c].method = "GET" /\ wire[c].body = None
               /\ target[c].path = "users/me/calendarList"
               /\ target[c].query =
                    {<<"showHidden", IF listArgs[c].hidden THEN "true" ELSE "false">>,
                     <<"minAccessRole", RoleString(listArgs[c].role)>>}
               /\ listed[c].ok
                    => /\ body[c].kind = "collection"
                       /\ listed[c].items = body[c].items

\* A list with hidden = true has returned two items in the order received.
C14_Witness ==
    \E c \in AllSlots :
        /\ listArgs[c].hidden /\ listArgs[c].role = "Reader"
        /\ listed[c].ok
        /\ listed[c].items = <<"b", "a">>

\* C15: one list call makes one GET, also when the collection carries a
\* continuation token; a failed GET or a body that does not decode is
\* returned as an error, never as a list.
C15_FirstPageOnly ==
    \A c \in AllSlots :
        /\ listArgs[c] # NoArgs => sends[c] <= 1
        /\ pc[c] = "listed"
            => /\ listed[c].ok => sends[c] = 1 /\ result[c] = "Response"
               /\ result[c] # "Response"
                    => ~listed[c].ok /\ listed[c].err = result[c]
               /\ (result[c] = "Response" /\ body[c].kind # "collection")
                    => ~listed[c].ok /\ listed[c].err = "DecodeError"

\* A list has returned the items of a collection that carried a
\* continuation token, after one GET.
C15_Witness ==
    \E c \in AllSlots :
        /\ pc[c] = "listed"
        /\ listed[c].ok
        /\ body[c].next
        /\ sends[c] = 1

====
